---- MODULE Spec2Model ----
(***************************************************************************)
(* LobeBedrockAI (libs/agent-runtime/bedrock/index.ts) and the Anthropic   *)
(* message helpers (libs/agent-runtime/utils/anthropicHelpers.ts).         *)
(*                                                                         *)
(* An optional JavaScript value is a sequence: <<>> is undefined, <<v>> is *)
(* the value v.  A string the code inspects character by character (the    *)
(* model identifier, a data URI) is a sequence of its pieces.              *)
(***************************************************************************)
EXTENDS Integers, Sequences, FiniteSets, TLC

\* ------------------------------------------------------------------ bounds
MaxMsgs == 3
MaxChunks == 2
MaxCalls == 2

\* ------------------------------------------------------- program constants
DefaultClaudeMaxTokens == 4096
DefaultLlamaMaxGenLen == 400

DefaultRegion == "us-east-1"
AnthropicVersion == "bedrock-2023-05-31"
LlamaPrefix == <<"m", "e", "t", "a">>
InvalidBedrockCredentials == "InvalidBedrockCredentials"
BedrockBizError == "BedrockBizError"
ProviderBedrock == "bedrock"

Undefined == <<>>
Some(v) == <<v>>

\* ------------------------------------------------------------ JS operators
\* truthiness of an optional string: undefined and '' are falsy
Truthy(s) == s # Undefined /\ s[1] # ""

\* a ?? d (OrEmptyDefault is a || d on an optional string)
OrEmptyDefault(a, d) == IF a = Undefined \/ a[1] = "" THEN d ELSE a[1]
Nullish(a, d) == IF a = Undefined THEN d ELSE a[1]

\* a || d for an optional number: undefined and 0 are falsy (NullishNumber is a ?? d)
NullishNumber(a, d) == IF a = Undefined THEN d ELSE a[1]
OrDefault(a, d) == IF a = Undefined \/ a[1] = 0 THEN d ELSE a[1]

\* s.startsWith(p) (Includes is s.includes(p))
Includes(s, p) ==
    \E i \in 0..Len(s) : i + Len(p) <= Len(s) /\ SubSeq(s, i + 1, i + Len(p)) = p
StartsWith(s, p) == Len(s) >= Len(p) /\ SubSeq(s, 1, Len(p)) = p

\* JSON.stringify of an object literal: a key whose value is undefined is dropped
JSONstringify(obj) == [k \in {j \in DOMAIN obj : obj[j] # Undefined} |-> obj[k][1]]

\* process.env.DEBUG_BEDROCK_CHAT_COMPLETION === '1' (DebugAlways ignores the toggle)
DebugAlways(e) == TRUE
DebugEnabled(e) == e = Some("1")

\* --------------------------------------------------------- message values
Text(s) == [kind |-> "string", text |-> s]
Parts(ps) == [kind |-> "array", parts |-> ps]
TextPart(t) == [type |-> "text", text |-> t]
ImagePart(u) == [type |-> "image_url", image_url |-> [url |-> u]]
Msg(r, c) == [role |-> r, content |-> c]

GoodUri == <<"data:", "image/png", ";base64,", "AAAA">>
BadUri == <<"image/png", "AAAA">>

\* parseDataUri lives in utils/uriParser: a data URI decomposes into its MIME
\* type and base64 payload; a malformed one is a failure of the decode step.
WellFormedUri(u) == Len(u) = 4 /\ u[1] = "data:" /\ u[3] = ";base64,"
parseDataUri(u) == [mimeType |-> u[2], base64 |-> u[4]]

\* ------------------------------------------------------ anthropicHelpers.ts
buildAnthropicBlock(content) ==
    CASE content.type = "text" -> content
      [] content.type = "image_url" ->
            [source |-> [data |-> parseDataUri(content.image_url.url).base64,
                         media_type |-> parseDataUri(content.image_url.url).mimeType,
                         type |-> "base64"],
             type |-> "image"]

buildAnthropicBlockThrows(content) ==
    content.type = "image_url" /\ ~WellFormedUri(content.image_url.url)

\* buildAnthropicMessageKeepRole is buildAnthropicMessage without the role remap
buildAnthropicMessageKeepRole(message) ==
    [content |-> IF message.content.kind = "string"
                 THEN message.content
                 ELSE Parts([i \in 1..Len(message.content.parts) |->
                                buildAnthropicBlock(message.content.parts[i])]),
     role |-> message.role]
buildAnthropicMessage(message) ==
    [content |-> IF message.content.kind = "string"
                 THEN message.content
                 ELSE Parts([i \in 1..Len(message.content.parts) |->
                                buildAnthropicBlock(message.content.parts[i])]),
     role |-> IF message.role = "function" \/ message.role = "system"
              THEN "assistant" ELSE message.role]

buildAnthropicMessageThrows(message) ==
    /\ message.content.kind = "array"
    /\ \E i \in 1..Len(message.content.parts) :
          buildAnthropicBlockThrows(message.content.parts[i])

buildAnthropicMessages(messages) ==
    [i \in 1..Len(messages) |-> buildAnthropicMessage(messages[i])]

buildAnthropicMessagesThrows(messages) ==
    \E i \in 1..Len(messages) : buildAnthropicMessageThrows(messages[i])

\* ------------------------------------------------------------- input sets
Roles == {"system", "user", "assistant", "function"}

\* messages of chat requests
MsgUniverse ==
    { Msg("system", Text("S1")), Msg("system", Text("S2")),
      Msg("user", Text("hi")),
      Msg("user", Parts(<<TextPart("t"), ImagePart(GoodUri)>>)),
      Msg("user", Parts(<<ImagePart(BadUri)>>)) }

\* messages of direct buildAnthropicMessages calls: every role
ConvUniverse ==
    MsgUniverse \cup { Msg("assistant", Text("yo")), Msg("function", Text("f")) }

SeqsUpTo(S, n) == UNION {[1..k -> S] : k \in 0..n}

MsgSeqs == SeqsUpTo(MsgUniverse, MaxMsgs)

ConvSeqs == SeqsUpTo(ConvUniverse, MaxMsgs)

Models ==
    { <<"m", "e", "t", "a", ".", "llama2">>,
      <<"a", "n", "thropic.claude-v2">>,
      <<"m", "e", "t">>,
      <<"x", "m", "e", "t", "a">> }

\* max_tokens, temperature and top_p of a request (temperature in tenths)
Options ==
    { [max_tokens |-> Undefined, temperature |-> Undefined, top_p |-> Undefined],
      [max_tokens |-> Some(0), temperature |-> Some(7), top_p |-> Undefined],
      [max_tokens |-> Some(256), temperature |-> Some(0), top_p |-> Some(1)] }

Payloads ==
    { [model |-> m, messages |-> ms, max_tokens |-> o.max_tokens,
       temperature |-> o.temperature, top_p |-> o.top_p] :
        m \in Models, ms \in MsgSeqs, o \in Options }

ConcPayloads ==
    { [model |-> m, messages |-> <<Msg("user", Text("hi"))>>, max_tokens |-> Undefined,
       temperature |-> Undefined, top_p |-> Undefined] :
        m \in { <<"m", "e", "t", "a", ".", "llama2">>, <<"a", "n", "thropic.claude-v2">> } }

OptStrings == {Undefined, Some(""), Some("k")}

CtorParams ==
    { [region |-> r, accessKeyId |-> k, accessKeySecret |-> s] :
        r \in {Undefined, Some(""), Some("eu-west-1")}, k \in OptStrings, s \in OptStrings }

ConcCtorParams ==
    { [region |-> r, accessKeyId |-> Some("k"), accessKeySecret |-> Some("k")] :
        r \in {Undefined, Some("eu-west-1")} }

\* what a failed client.send throws: an Error with name, message and, for a
\* service exception, $metadata
VendorErrors ==
    { [name |-> "ThrottlingException", message |-> "Too many requests",
       metadata |-> Some([httpStatusCode |-> 429])],
      [name |-> "Error", message |-> "socket hang up", metadata |-> Undefined] }

ConcVendorErrors == { [name |-> "Error", message |-> "socket hang up", metadata |-> Undefined] }

\* the text deltas the vendor's response stream carries
Chunks == {"a", "b"}

EnvValues == {Undefined, Some("0"), Some("1")}

\* -------------------------------------------------------------------- state
VARIABLES
    ctor,        \* "new" | "ok" | "failed": the outcome of new LobeBedrockAI(...)
    ctorArgs,    \* the parameters the constructor was called with
    ctorError,   \* what the constructor threw
    thisRegion,  \* this.region
    client,      \* this.client
    env,         \* process.env.DEBUG_BEDROCK_CHAT_COMPLETION
    call,        \* one record per chat call
    convIn,      \* argument of a direct buildAnthropicMessages call
    convOut      \* its outcome

vars == <<ctor, ctorArgs, ctorError, thisRegion, client, env, call, convIn, convOut>>

adapter == <<ctor, ctorArgs, ctorError, thisRegion, client>>
conv == <<convIn, convOut>>

IdleCall ==
    [pc |-> "idle", path |-> "none", payload |-> Undefined, command |-> Undefined,
     sends |-> 0, vendorErr |-> Undefined, error |-> Undefined,
     chunks |-> <<>>, closed |-> FALSE, src |-> <<>>, outQ |-> <<>>, dbgQ |-> <<>>, delivered |-> <<>>,
     dbg |-> "none", logged |-> FALSE]

InitWith(ids, e, inputs) ==
    /\ ctor = "new"
    /\ ctorArgs = Undefined
    /\ ctorError = Undefined
    /\ thisRegion = Undefined
    /\ client = Undefined
    /\ env \in e
    /\ call = [c \in ids |-> IdleCall]
    /\ convIn \in inputs
    /\ convOut = Undefined

Init == InitWith(1..1, EnvValues, {<<>>})

\* -------------------------------------------------------------- constructor
Construct(params) ==
    /\ ctor = "new"
    /\ ctorArgs' = Some(params)
    /\ IF ~(Truthy(params.accessKeyId) /\ Truthy(params.accessKeySecret))
       THEN /\ ctor' = "failed"
            /\ ctorError' = Some(InvalidBedrockCredentials)
            /\ UNCHANGED <<thisRegion, client>>
       ELSE /\ ctor' = "ok"
            /\ thisRegion' = Some(Nullish(params.region, DefaultRegion))
            /\ client' = Some([credentials |-> [accessKeyId |-> params.accessKeyId[1],
                                               secretAccessKey |-> params.accessKeySecret[1]],
                               region |-> Nullish(params.region, DefaultRegion)])
            /\ UNCHANGED ctorError
    /\ UNCHANGED <<env, call, conv>>

\* --------------------------------------------------------------------- chat
\* messages.find((m) => m.role === 'system')
find_system(messages) ==
    IF \E i \in 1..Len(messages) : messages[i].role = "system"
    THEN Some(messages[CHOOSE i \in 1..Len(messages) :
                          /\ messages[i].role = "system"
                          /\ \A j \in 1..(i - 1) : messages[j].role # "system"])
    ELSE Undefined

\* messages.filter((m) => m.role !== 'system') (drop_first_system removes only the
\* message find returned)
IsNotSystem(m) == m.role # "system"
drop_first_system(messages) ==
    IF find_system(messages) = Undefined THEN messages
    ELSE LET i == CHOOSE k \in 1..Len(messages) :
                     /\ messages[k].role = "system"
                     /\ \A j \in 1..(k - 1) : messages[j].role # "system"
         IN SubSeq(messages, 1, i - 1) \o SubSeq(messages, i + 1, Len(messages))
filter_not_system(messages) == SelectSeq(messages, IsNotSystem)

ClaudeBody(p) ==
    LET system_message == find_system(p.messages)
        user_messages == filter_not_system(p.messages)
    IN JSONstringify(
         [anthropic_version |-> Some(AnthropicVersion),
          max_tokens |-> Some(OrDefault(p.max_tokens, DefaultClaudeMaxTokens)),
          messages |-> Some(buildAnthropicMessages(user_messages)),
          system |-> IF system_message = Undefined THEN Undefined
                     ELSE Some(system_message[1].content),
          temperature |-> p.temperature,
          top_p |-> p.top_p])

\* experimental_buildLlama2Prompt belongs to the 'ai' package: its result is
\* kept symbolic, and whether it returns or throws is the library's choice.
buildLlama2Prompt(messages) == [llama2prompt |-> messages]

LlamaBody(p) ==
    JSONstringify(
         [max_gen_len |-> Some(OrDefault(p.max_tokens, DefaultLlamaMaxGenLen)),
          prompt |-> Some(buildLlama2Prompt(p.messages))])

Command(body, model) ==
    [accept |-> "application/json", body |-> body,
     contentType |-> "application/json", modelId |-> model]

\* an exception raised before the try block: the promise rejects with it as is
RejectRaw(c, path, e) ==
    call' = [call EXCEPT ![c] = [@ EXCEPT !.pc = "rejected", !.path = path,
                                          !.error = Some(e)]]

\* this.client.send(command), awaited
Send(c, path, p, body) ==
    call' = [call EXCEPT ![c] = [@ EXCEPT !.pc = "awaiting", !.path = path,
                                          !.payload = Some(p),
                                          !.command = Some(Command(body, p.model)),
                                          !.sends = @ + 1]]

invokeClaudeModel(c, p) ==
    IF buildAnthropicMessagesThrows(filter_not_system(p.messages))
    THEN RejectRaw(c, "claude", [name |-> "Error", message |-> "malformed data uri"])
    ELSE Send(c, "claude", p, ClaudeBody(p))

invokeLlamaModel(c, p, templated) ==
    IF ~templated
    THEN RejectRaw(c, "llama", [name |-> "Error", message |-> "prompt template"])
    ELSE Send(c, "llama", p, LlamaBody(p))

chat(c, p, templated) ==
    /\ ctor = "ok"
    /\ call[c].pc = "idle"
    /\ IF StartsWith(p.model, LlamaPrefix)
       THEN invokeLlamaModel(c, p, templated)
       ELSE invokeClaudeModel(c, p)
    /\ UNCHANGED <<adapter, env, conv>>

\* the catch blocks (ClaudeCatchDefaultRegion reports the default region instead of
\* this.region)
ClaudeCatchDefaultRegion(err, region) ==
    [error |-> [body |-> err.metadata, message |-> err.message, type |-> err.name],
     errorType |-> BedrockBizError,
     provider |-> ProviderBedrock,
     region |-> DefaultRegion]
ClaudeCatch(err, region) ==
    [error |-> [body |-> err.metadata, message |-> err.message, type |-> err.name],
     errorType |-> BedrockBizError,
     provider |-> ProviderBedrock,
     region |-> region]

LlamaCatch(err, region) ==
    [error |-> [body |-> err.metadata, message |-> err.message, region |-> region,
                type |-> err.name],
     errorType |-> BedrockBizError,
     provider |-> ProviderBedrock,
     region |-> region]

Catch(path, err, region) ==
    IF path = "llama" THEN LlamaCatch(err, region) ELSE ClaudeCatch(err, region)

\* client.send resolved: wrap the response as a text stream, tee it, start the
\* debug drain when the toggle is on, return the output branch
SendResolved(c) ==
    /\ call[c].pc = "awaiting"
    /\ call' = [call EXCEPT ![c] =
                  [@ EXCEPT !.pc = "resolved", !.payload = Undefined, !.command = Undefined,
                            !.dbg = IF DebugEnabled(env) THEN "draining" ELSE "none"]]
    /\ UNCHANGED <<adapter, env, conv>>

\* client.send threw (SendRejectedRetry sends the command again instead of rethrowing)
SendRejectedRetry(c, err) ==
    /\ call[c].pc = "awaiting"
    /\ call[c].sends < 3
    /\ call' = [call EXCEPT ![c] = [@ EXCEPT !.sends = @ + 1]]
    /\ UNCHANGED <<adapter, env, conv>>
SendRejected(c, err) ==
    /\ call[c].pc = "awaiting"
    /\ call' = [call EXCEPT ![c] =
                  [@ EXCEPT !.pc = "rejected", !.payload = Undefined, !.command = Undefined,
                            !.vendorErr = Some(err),
                            !.error = Some(Catch(call[c].path, err, thisRegion[1]))]]
    /\ UNCHANGED <<adapter, env, conv>>

\* ------------------------------------------------------------ teed stream
\* the vendor emits the next text delta of the response stream, or ends it
VendorEmit(c, chunk, cap) ==
    /\ call[c].pc = "resolved"
    /\ ~call[c].closed
    /\ Len(call[c].chunks) < cap
    /\ call' = [call EXCEPT ![c] = [@ EXCEPT !.chunks = Append(@, chunk),
                                             !.src = Append(@, chunk)]]
    /\ UNCHANGED <<adapter, env, conv>>

VendorClose(c) ==
    /\ call[c].pc = "resolved"
    /\ ~call[c].closed
    /\ call' = [call EXCEPT ![c] = [@ EXCEPT !.closed = TRUE]]
    /\ UNCHANGED <<adapter, env, conv>>

\* stream.tee(): a chunk read from the source is enqueued on both branches
TeePull(c) ==
    /\ call[c].pc = "resolved"
    /\ call[c].src # <<>>
    /\ call' = [call EXCEPT ![c] =
                  [@ EXCEPT !.src = Tail(@),
                            !.outQ = Append(@, Head(call[c].src)),
                            !.dbgQ = Append(@, Head(call[c].src))]]
    /\ UNCHANGED <<adapter, env, conv>>

\* the caller reads the StreamingTextResponse
PrimaryRead(c) ==
    /\ call[c].pc = "resolved"
    /\ call[c].outQ # <<>>
    /\ call' = [call EXCEPT ![c] =
                  [@ EXCEPT !.outQ = Tail(@),
                            !.delivered = Append(@, Head(call[c].outQ))]]
    /\ UNCHANGED <<adapter, env, conv>>

\* debugStream(debug) reads the diagnostic branch
DebugRead(c) ==
    /\ call[c].dbg = "draining"
    /\ call[c].dbgQ # <<>>
    /\ call' = [call EXCEPT ![c] = [@ EXCEPT !.dbgQ = Tail(@)]]
    /\ UNCHANGED <<adapter, env, conv>>

DebugDone(c) ==
    /\ call[c].dbg = "draining"
    /\ call[c].dbgQ = <<>>
    /\ call[c].src = <<>>
    /\ call[c].closed
    /\ call' = [call EXCEPT ![c] = [@ EXCEPT !.dbg = "done"]]
    /\ UNCHANGED <<adapter, env, conv>>

\* debugStream(debug) rejects: .catch(console.error)
DebugFail(c) ==
    /\ call[c].dbg = "draining"
    /\ call' = [call EXCEPT ![c] = [@ EXCEPT !.dbg = "failed", !.logged = TRUE]]
    /\ UNCHANGED <<adapter, env, conv>>

\* the environment toggle is process-wide and may change between calls
SetEnv(v) ==
    /\ env # v
    /\ env' = v
    /\ UNCHANGED <<adapter, call, conv>>

\* ------------------------------------------------------------ specifications
NextWith(ctorParams, payloads, chunks, cap, vendorErrors) ==
    \/ \E params \in ctorParams : Construct(params)
    \/ \E c \in DOMAIN call :
          /\ call[c].pc = "idle"
          /\ ctor = "ok"
          /\ \E p \in payloads, templated \in BOOLEAN : chat(c, p, templated)
    \/ \E c \in DOMAIN call : SendResolved(c)
    \/ \E c \in DOMAIN call, err \in vendorErrors : SendRejected(c, err)
    \/ \E c \in DOMAIN call, chunk \in chunks : VendorEmit(c, chunk, cap)
    \/ \E c \in DOMAIN call : VendorClose(c)
    \/ \E c \in DOMAIN call : TeePull(c)
    \/ \E c \in DOMAIN call : PrimaryRead(c)
    \/ \E c \in DOMAIN call : DebugRead(c)
    \/ \E c \in DOMAIN call : DebugDone(c)
    \/ \E c \in DOMAIN call : DebugFail(c)
    \/ \E v \in EnvValues : SetEnv(v)

Next == NextWith(CtorParams, Payloads, Chunks, MaxChunks, VendorErrors)

Spec == Init /\ [][Next]_vars

\* concurrent chat calls on one adapter, each answered by an empty response stream
InitConc == InitWith(1..MaxCalls, {Undefined, Some("1")}, {<<>>})

NextConc ==
    \/ \E params \in ConcCtorParams : Construct(params)
    \/ \E c \in DOMAIN call, p \in ConcPayloads, templated \in BOOLEAN : chat(c, p, templated)
    \/ \E c \in DOMAIN call : SendResolved(c)
    \/ \E c \in DOMAIN call, err \in ConcVendorErrors : SendRejected(c, err)
    \/ \E c \in DOMAIN call : VendorClose(c)
    \/ \E c \in DOMAIN call : DebugDone(c)
    \/ \E c \in DOMAIN call : DebugFail(c)
    \/ \E v \in EnvValues : SetEnv(v)

SpecConc == InitConc /\ [][NextConc]_vars

\* buildAnthropicMessages called directly on any message sequence
InitConv == InitWith(1..1, {Undefined}, ConvSeqs)

Convert ==
    /\ convOut = Undefined
    /\ convOut' = IF buildAnthropicMessagesThrows(convIn)
                  THEN Some([threw |-> TRUE])
                  ELSE Some([threw |-> FALSE, value |-> buildAnthropicMessages(convIn)])
    /\ UNCHANGED <<adapter, env, call, convIn>>

NextConv == Convert

SpecConv == InitConv /\ [][NextConv]_vars

\* ================================================================== claims
Awaiting(c) == call[c].pc = "awaiting"
Body(c) == call[c].command[1].body
Payload(c) == call[c].payload[1]
MinOf(S) == CHOOSE x \in S : \A y \in S : x <= y

\* ---------------------------------------------------------------------- C1
MissingOrEmpty(s) == s = <<>> \/ s = <<"">>

\* C1: construction fails with InvalidBedrockCredentials exactly when accessKeyId or
\* accessKeySecret is missing or empty, whatever the region; then there is no client,
\* no region, no request and no chat call.  Otherwise it succeeds and the region is
\* the given one, or 'us-east-1' when it was omitted.
C1_Construction ==
    /\ ctor = "new" => ctorArgs = Undefined /\ client = Undefined
    /\ ctor # "new" =>
          (ctor = "failed" <=> \/ MissingOrEmpty(ctorArgs[1].accessKeyId)
                               \/ MissingOrEmpty(ctorArgs[1].accessKeySecret))
    /\ ctor = "failed" =>
          /\ ctorError = <<"InvalidBedrockCredentials">>
          /\ client = Undefined
          /\ thisRegion = Undefined
    /\ ctor # "ok" => \A c \in DOMAIN call : call[c].pc = "idle" /\ call[c].sends = 0
    /\ ctor = "ok" =>
          /\ ctorError = Undefined
          /\ thisRegion = IF ctorArgs[1].region = <<>> THEN <<"us-east-1">>
                          ELSE ctorArgs[1].region
          /\ client # Undefined
          /\ <<client[1].region>> = thisRegion
          /\ <<client[1].credentials.accessKeyId>> = ctorArgs[1].accessKeyId
          /\ <<client[1].credentials.secretAccessKey>> = ctorArgs[1].accessKeySecret

C1_Witness ==
    /\ ctor = "failed"
    /\ ctorArgs[1].accessKeyId = <<"k">>
    /\ ctorArgs[1].accessKeySecret = <<"">>
    /\ ctorArgs[1].region = <<"eu-west-1">>

\* ---------------------------------------------------------------------- C2
HasMetaPrefix(m) ==
    Len(m) >= 4 /\ m[1] = "m" /\ m[2] = "e" /\ m[3] = "t" /\ m[4] = "a"

\* C2: a request whose model starts with 'meta' is sent with the Llama body (prompt
\* and max_gen_len, neither messages nor system); any other model is sent with the
\* Claude body (messages, anthropic_version, max_tokens); a call takes one path.
C2_Routing ==
    \A c \in DOMAIN call :
       /\ call[c].pc # "idle" => call[c].path \in {"claude", "llama"}
       /\ Awaiting(c) =>
             /\ call[c].command[1].modelId = Payload(c).model
             /\ IF HasMetaPrefix(Payload(c).model)
                THEN /\ call[c].path = "llama"
                     /\ {"prompt", "max_gen_len"} \subseteq DOMAIN Body(c)
                     /\ "messages" \notin DOMAIN Body(c)
                     /\ "system" \notin DOMAIN Body(c)
                ELSE /\ call[c].path = "claude"
                     /\ {"messages", "anthropic_version", "max_tokens"} \subseteq DOMAIN Body(c)
                     /\ "prompt" \notin DOMAIN Body(c)

C2_Witness ==
    \E c \in DOMAIN call :
       /\ Awaiting(c)
       /\ call[c].path = "claude"
       /\ Payload(c).model = <<"x", "m", "e", "t", "a">>

\* ---------------------------------------------------------------------- C3
\* C3: when client.send fails, on either path, chat rejects with a BedrockBizError
\* of provider Bedrock carrying the region fixed at construction and the thrown
\* error's message, name and $metadata; no stream is returned.
C3_InvocationFailure ==
    \A c \in DOMAIN call :
       call[c].vendorErr # Undefined =>
          /\ call[c].pc = "rejected"
          /\ call[c].error # Undefined
          /\ call[c].error[1].errorType = "BedrockBizError"
          /\ call[c].error[1].provider = "bedrock"
          /\ <<call[c].error[1].region>> = thisRegion
          /\ call[c].error[1].error.message = call[c].vendorErr[1].message
          /\ call[c].error[1].error.type = call[c].vendorErr[1].name
          /\ call[c].error[1].error.body = call[c].vendorErr[1].metadata
          /\ call[c].chunks = <<>> /\ call[c].src = <<>> /\ call[c].outQ = <<>>
          /\ call[c].delivered = <<>> /\ call[c].dbg = "none"

C3_Witness ==
    \E c \in DOMAIN call :
       /\ call[c].pc = "rejected"
       /\ call[c].path = "llama"
       /\ call[c].vendorErr # Undefined
       /\ call[c].vendorErr[1].name = "ThrottlingException"
       /\ thisRegion = <<"eu-west-1">>

\* ---------------------------------------------------------------------- C4
IsPrefix(s, t) == Len(s) <= Len(t) /\ SubSeq(t, 1, Len(s)) = s

C4_StreamIntact ==
    \A c \in DOMAIN call :
       call[c].pc = "resolved" =>
          /\ call[c].error = Undefined
          /\ call[c].delivered \o call[c].outQ \o call[c].src = call[c].chunks
          /\ (call[c].src # <<>> \/ call[c].outQ # <<>>) =>
                ENABLED (TeePull(c) \/ PrimaryRead(c))

C4_Step ==
    \A c \in DOMAIN call :
       /\ call[c].pc = "resolved" =>
             /\ call'[c].pc = "resolved"
             /\ IsPrefix(call[c].delivered, call'[c].delivered)
             /\ call'[c].dbg # call[c].dbg => call[c].dbg = "draining"
       /\ (call[c].pc # "resolved" /\ call'[c].pc = "resolved") =>
             (call'[c].dbg = "draining" <=> env = <<"1">>)
       /\ call'[c].dbgQ # call[c].dbgQ /\ Len(call'[c].dbgQ) < Len(call[c].dbgQ) =>
             call[c].dbg = "draining"

\* C4: once chat has resolved, nothing the debug drain does (reading, finishing,
\* failing, stalling) rejects the call or changes what the primary stream delivers:
\* the chunks delivered and still queued are always exactly what the vendor emitted,
\* the primary branch can always advance, and the diagnostic branch is drained only
\* when the toggle was '1' when the call resolved.
C4_DebugIsolated == []C4_StreamIntact /\ [][C4_Step]_vars

C4_Witness ==
    \E c \in DOMAIN call :
       /\ call[c].pc = "resolved"
       /\ call[c].dbg = "failed"
       /\ call[c].logged
       /\ call[c].closed
       /\ Len(call[c].chunks) = 2
       /\ call[c].delivered = call[c].chunks
       /\ call[c].dbgQ # <<>>

\* ---------------------------------------------------------------------- C5
\* C5 as stated: the body carries the request's max_tokens whenever the request
\* supplies one, 0 included, and the default otherwise.
C5_SuppliedOrDefault ==
    \A c \in DOMAIN call :
       Awaiting(c) =>
          IF call[c].path = "claude"
          THEN Body(c).max_tokens = IF Payload(c).max_tokens # <<>>
                                    THEN Payload(c).max_tokens[1] ELSE 4096
          ELSE Body(c).max_gen_len = IF Payload(c).max_tokens # <<>>
                                     THEN Payload(c).max_tokens[1] ELSE 400

\* C5 as amended: the body carries the request's max_tokens when the request
\* supplies a non-zero one; when it is omitted or 0 the body carries 4096 (Claude
\* path, max_tokens) or 400 (Llama path, max_gen_len).
C5_NonZeroOrDefault ==
    \A c \in DOMAIN call :
       Awaiting(c) =>
          IF call[c].path = "claude"
          THEN Body(c).max_tokens = IF Payload(c).max_tokens \notin {<<>>, <<0>>}
                                    THEN Payload(c).max_tokens[1] ELSE 4096
          ELSE Body(c).max_gen_len = IF Payload(c).max_tokens \notin {<<>>, <<0>>}
                                     THEN Payload(c).max_tokens[1] ELSE 400

C5_Witness ==
    \E c \in DOMAIN call :
       /\ Awaiting(c)
       /\ call[c].path = "llama"
       /\ Payload(c).max_tokens = <<0>>
       /\ Body(c).max_gen_len = 400

\* ---------------------------------------------------------------------- C6
SystemIdx(ms) == {i \in 1..Len(ms) : ms[i].role = "system"}
OtherIdx(ms) == {i \in 1..Len(ms) : ms[i].role # "system"}
Rank(ms, i) == Cardinality({j \in OtherIdx(ms) : j <= i})

\* C6: the Claude body has a system field iff the input has a system message; it is
\* the content of the first one; the body's messages are the conversions of exactly
\* the non-system messages, in their input order.
C6_SystemExtraction ==
    \A c \in DOMAIN call :
       (Awaiting(c) /\ call[c].path = "claude") =>
          LET ms == Payload(c).messages
              b == Body(c)
          IN /\ "system" \in DOMAIN b <=> SystemIdx(ms) # {}
             /\ SystemIdx(ms) # {} => b.system = ms[MinOf(SystemIdx(ms))].content
             /\ Len(b.messages) = Cardinality(OtherIdx(ms))
             /\ \A i \in OtherIdx(ms) :
                   b.messages[Rank(ms, i)] = buildAnthropicMessage(ms[i])

C6_Witness ==
    \E c \in DOMAIN call :
       /\ Awaiting(c)
       /\ call[c].path = "claude"
       /\ Payload(c).messages =
             <<Msg("user", Text("hi")), Msg("system", Text("S2")), Msg("system", Text("S1"))>>
       /\ Body(c).system = Text("S2")
       /\ Len(Body(c).messages) = 1

\* ---------------------------------------------------------------------- C7
\* C7: buildAnthropicMessages returns as many messages as it was given; the i-th has
\* role 'assistant' when the i-th input's role is 'system' or 'function' and the
\* input's role otherwise, so always 'user' or 'assistant'; plain-text content is
\* the input's content.
C7_ConvertMessages ==
    (convOut # Undefined /\ ~convOut[1].threw) =>
       LET out == convOut[1].value
       IN /\ Len(out) = Len(convIn)
          /\ \A i \in 1..Len(convIn) :
                /\ out[i].role = CASE convIn[i].role = "system" -> "assistant"
                                   [] convIn[i].role = "function" -> "assistant"
                                   [] convIn[i].role = "user" -> "user"
                                   [] convIn[i].role = "assistant" -> "assistant"
                /\ out[i].role \in {"user", "assistant"}
                /\ convIn[i].content.kind = "string" => out[i].content = convIn[i].content

C7_Witness ==
    /\ convOut # Undefined
    /\ ~convOut[1].threw
    /\ convIn = <<Msg("function", Text("f")), Msg("user", Text("hi")), Msg("system", Text("S1"))>>
    /\ convOut[1].value[3].role = "assistant"

\* ---------------------------------------------------------------------- C8
C8_OneRequest ==
    \A c \in DOMAIN call :
       call[c].sends = IF call[c].pc \in {"awaiting", "resolved"} \/ call[c].vendorErr # Undefined
                       THEN 1 ELSE 0

C8_Step ==
    /\ ctor = "ok" => thisRegion' = thisRegion /\ client' = client /\ ctor' = "ok"
    /\ \A c \in DOMAIN call : call'[c].sends >= call[c].sends
    /\ \A c1, c2 \in DOMAIN call :
          (c1 # c2 /\ call'[c1] # call[c1]) => call'[c2] = call[c2]

\* C8: a chat call that reaches the vendor has sent exactly one request, whether the
\* invocation succeeded or failed, and never sends another; a step of one call
\* changes no other call, and the region and client stay as constructed.
C8_SingleInvoke == []C8_OneRequest /\ [][C8_Step]_vars

C8_Witness ==
    \E c1, c2 \in DOMAIN call :
       /\ call[c1].pc = "rejected" /\ call[c1].vendorErr # Undefined /\ call[c1].sends = 1
       /\ call[c2].pc = "resolved" /\ call[c2].sends = 1

\* ---------------------------------------------------------------------- C9
\* C9: every chat call that has ended either resolved with a stream or rejected
\* with a structured BedrockBizError, whichever step of the call failed.
C9_StreamOrStructuredError ==
    \A c \in DOMAIN call :
       call[c].pc = "rejected" =>
          /\ "errorType" \in DOMAIN call[c].error[1]
          /\ call[c].error[1].errorType = "BedrockBizError"

\* --------------------------------------------------------------------- C10
\* C10: two calls whose vendor invocation failed with the same error reject with
\* the same structured error, whichever path each took.
C10_SameErrorOnBothPaths ==
    \A c1, c2 \in DOMAIN call :
       (call[c1].vendorErr # Undefined /\ call[c1].vendorErr = call[c2].vendorErr) =>
          call[c1].error = call[c2].error

====
